---- MODULE Spec2Model ----
(***************************************************************************)
(* The slice store of pti-tools (src/src/stores/slices.ts): the ordered    *)
(* slice list, the layer lists, the two promise-chain mutexes and the      *)
(* asynchronous operations that edit them, as a state machine.             *)
(*                                                                         *)
(* Objects live in two heaps (sliceHeap, layerHeap) and are named by their *)
(* index there, which stands for JavaScript object identity.  Array        *)
(* positions are 0-based as in the source (IndexOf, Splice).               *)
(***************************************************************************)
EXTENDS Integers, Sequences, FiniteSets, TLC

\* ------------------------------------------------------------ constants
maxSlices == 48
maxDuration == 45
maxLayers == 12
sampleRate == 44100

\* ------------------------------------------------------------ bounds
\* calls of the store's functions made in one run
MaxCalls == 2

\* ------------------------------------------------------------ helpers
Min(a, b) == IF a < b THEN a ELSE b
Max(a, b) == IF a > b THEN a ELSE b

\* Array.prototype.indexOf: the first 0-based position of x, or -1
IndexOf(arr, x) ==
  LET at == {i \in 1..Len(arr) : arr[i] = x}
  IN  IF at = {} THEN -1 ELSE (CHOOSE i \in at : \A j \in at : i <= j) - 1

\* Array.prototype.splice(start, deleteCount, ...items): a negative start
\* counts from the end, start and deleteCount are clamped to the array.
SpliceStart(arr, start) ==
  IF start < 0 THEN Max(Len(arr) + start, 0) ELSE Min(start, Len(arr))

Splice(arr, start, deleteCount, items) ==
  LET s == SpliceStart(arr, start)
      d == Min(Max(deleteCount, 0), Len(arr) - s)
  IN  SubSeq(arr, 1, s) \o items \o SubSeq(arr, s + d + 1, Len(arr))

\* ------------------------------------------------------------ audio clips
\* A mono clip is a run-length sequence of [n |-> frames, v |-> amplitude],
\* kept normalised: no empty run, no two adjacent runs of one amplitude.
\* the element of a singleton set (binds an argument to its value)
Value(S) == CHOOSE x \in S : TRUE

\* the run h put in front of the normalised clip r
Cons(h, r) ==
  IF h.n = 0 THEN r
  ELSE IF r # <<>> /\ r[1].v = h.v
  THEN <<[n |-> h.n + r[1].n, v |-> h.v]>> \o Tail(r)
  ELSE <<h>> \o r

RECURSIVE Norm(_)
Norm(c) ==
  Value({IF x = <<>> THEN <<>>
         ELSE Value({Cons(x[1], r) : r \in {Norm(Tail(x))}}) : x \in {c}})

RECURSIVE Frames(_)
Frames(c) ==
  Value({IF x = <<>> THEN 0 ELSE x[1].n + Frames(Tail(x)) : x \in {c}})

\* AudioBuffer.duration > maxDuration, with duration = length / sampleRate
LongerThan(frames, seconds) == frames > seconds * sampleRate

\* sample-wise sum of two clips; the shorter one is padded with silence
Rest(a, k) ==
  IF a[1].n = k THEN Tail(a)
  ELSE <<[n |-> a[1].n - k, v |-> a[1].v]>> \o Tail(a)

RECURSIVE Mix(_, _)
Mix(a, b) ==
  Value({IF x = <<>> THEN y
         ELSE IF y = <<>> THEN x
         ELSE Value({<<[n |-> k, v |-> x[1].v + y[1].v]>>
                       \o Mix(Rest(x, k), Rest(y, k)) :
                     k \in {Min(x[1].n, y[1].n)}}) :
         x \in {a}, y \in {b}})

RECURSIVE MixAll(_)
MixAll(cs) ==
  Value({IF x = <<>> THEN <<>> ELSE Mix(x[1], MixAll(Tail(x))) : x \in {cs}})

\* combineAudio(buffers): the sample-wise sum of the buffers
combineAudio(buffers) == Norm(MixAll(buffers))

\* sumChannels(audio): the channels of a decoded buffer summed to mono
sumChannels(channels) == Norm(MixAll(channels))

\* trimSilence(audio, ctx, trimStart, trimEnd): silence cut from the chosen
\* edges
trimSilence(audio, trimStart, trimEnd) ==
  LET a == IF trimStart /\ audio # <<>> /\ audio[1].v = 0
           THEN Tail(audio) ELSE audio
  IN  IF trimEnd /\ a # <<>> /\ a[Len(a)].v = 0
      THEN SubSeq(a, 1, Len(a) - 1) ELSE a

TrimOption == {"none", "start", "end", "both"}

\* the switch of trimAudio: the audio a trim option yields
applyTrim(audio, option) ==
  CASE option = "none"  -> audio
    [] option = "start" -> trimSilence(audio, TRUE, FALSE)
    [] option = "end"   -> trimSilence(audio, FALSE, TRUE)
    [] option = "both"  -> trimSilence(audio, TRUE, TRUE)

\* ------------------------------------------------------------ file names
\* displayName: fileName.replace(/\.[^.]+$/, ""); a name is a sequence of
\* characters
LastDot(name) ==
  IF \E i \in 1..Len(name) : name[i] = "."
  THEN CHOOSE i \in 1..Len(name) :
         name[i] = "." /\ \A j \in (i + 1)..Len(name) : name[j] # "."
  ELSE 0

displayName(fileName) ==
  LET d == LastDot(fileName)
  IN  IF d > 0 /\ d < Len(fileName) THEN SubSeq(fileName, 1, d - 1)
      ELSE fileName

\* layers.map(name).join(" + ")
RECURSIVE JoinNames(_)
JoinNames(names) ==
  Value({IF x = <<>> THEN <<>>
         ELSE IF Len(x) = 1 THEN x[1]
         ELSE x[1] \o <<" + ">> \o JoinNames(Tail(x)) : x \in {names}})

\* ------------------------------------------------------------ inputs
\* The File objects callers pass in: a name, whether file.arrayBuffer()
\* resolves, whether decodeAudioData accepts the bytes, and the decoded
\* channels.
FileIds == {"kick", "pad", "mix", "bad", "gone"}

File(f) ==
  CASE f = "kick" ->
         [name |-> <<"k", ".", "w">>, readable |-> TRUE, decodes |-> TRUE,
          channels |-> << <<[n |-> 1, v |-> 0], [n |-> 1, v |-> 1],
                           [n |-> 2, v |-> 0]>>,
                         <<[n |-> 2, v |-> 0], [n |-> 1, v |-> 1],
                           [n |-> 1, v |-> 0]>> >>]
    [] f = "pad" ->
         [name |-> <<"p", ".", "a", ".", "w">>, readable |-> TRUE,
          decodes |-> TRUE,
          channels |-> << <<[n |-> 30 * sampleRate, v |-> 1]>> >>]
    [] f = "mix" ->
         [name |-> <<"m", ".">>, readable |-> TRUE, decodes |-> TRUE,
          channels |-> << <<[n |-> 45 * sampleRate + 1, v |-> 1]>> >>]
    [] f = "bad" ->
         [name |-> <<"b">>, readable |-> TRUE, decodes |-> FALSE,
          channels |-> <<>>]
    [] f = "gone" ->
         [name |-> <<"g", ".", "w">>, readable |-> FALSE, decodes |-> FALSE,
          channels |-> <<>>]

\* the frame count of a decoded buffer: the length of its channels
DecodedFrames(f) == Frames(File(f).channels[1])

\* the record loadAudio returns for a file it accepts
AudioFileOf(f) ==
  LET monoAudio == sumChannels(File(f).channels)
  IN  [name |-> displayName(File(f).name),
       audio |-> monoAudio,
       originalAudio |-> monoAudio,
       trim |-> "none"]

\* the Slice addSlice builds from the loaded record, holding layer l
NewSlice(audioFile, l) ==
  [name |-> audioFile.name, audio |-> audioFile.audio,
   originalAudio |-> audioFile.originalAudio, trim |-> audioFile.trim,
   layers |-> <<l>>]

\* the Layer addSlice and addLayer build from the loaded record, for slice s
NewLayer(audioFile, s) ==
  [name |-> audioFile.name, audio |-> audioFile.audio,
   originalAudio |-> audioFile.originalAudio, trim |-> audioFile.trim,
   slice |-> s]

\* ------------------------------------------------------------ state
VARIABLES
  slices,      \* slices.value: the ordered list of Slice objects
  sliceHeap,   \* every Slice object ever created, by identity
  layerHeap,   \* every Layer object ever created, by identity
  collected,   \* Slice objects the garbage collector has reclaimed
  promise,     \* Mutex.promise of each mutex: the newest promise of its chain
  resolved,    \* the promises of each mutex that are resolved
  tasks,       \* the addSlice/addLayer/removeLayer calls, in call order
  recomps,     \* handleLayerChange calls started by trimAudio, not awaited
  messages,    \* messagesStore: the notifications emitted
  ops,         \* synchronous store calls made so far (the others are tasks)
  editSlice,   \* editSlice.value: the selected Slice, 0 for null
  source,      \* source: the AudioBufferSourceNode of the preview, 0 for null
  voices,      \* every AudioBufferSourceNode ever created, by identity
  audio,       \* createBeatSlicedPtiFromSamples: the clips passed in
  instrumentName, \* createBeatSlicedPtiFromSamples: the name passed in
  buffer,      \* the ArrayBuffer of a .pti file, a sequence of bytes
  headerData   \* the HeaderData parseHeader returned, <<>> before a parse

\* the preview voice and the codec share no state with the slice list
store == <<slices, sliceHeap, layerHeap, collected, promise, resolved, tasks,
           recomps, messages, ops>>
playback == <<source, voices>>
codec == <<audio, instrumentName, buffer, headerData>>

vars == <<store, editSlice, playback, codec>>

Mutexes == {"sliceMutex", "layerMutex"}

SliceIds == 1..Len(sliceHeap)
LayerIds == 1..Len(layerHeap)

\* slice.layers.map((layer) => layer.audio)
LayerAudio(s) == [i \in 1..Len(sliceHeap[s].layers) |->
                    layerHeap[sliceHeap[s].layers[i]].audio]

\* slice.layers.map((layer) => layer.name)
LayerNames(s) == [i \in 1..Len(sliceHeap[s].layers) |->
                    layerHeap[sliceHeap[s].layers[i]].name]

\* ------------------------------------------------------------ initial states
\* A store is described by the files its slices were built from, one
\* sequence of files (the layers) per slice, all untrimmed and recomposed.
RECURSIVE Before(_, _)
Before(shape, i) == IF i = 1 THEN 0 ELSE Len(shape[i - 1]) + Before(shape, i - 1)

\* the slice that layer k of the store belongs to
OwnerOf(shape, k) ==
  CHOOSE i \in 1..Len(shape) :
    Before(shape, i) < k /\ k <= Before(shape, i) + Len(shape[i])

StoreLayers(shape) ==
  IF shape = <<>> THEN <<>>
  ELSE [k \in 1..(Before(shape, Len(shape)) + Len(shape[Len(shape)])) |->
          LET i == OwnerOf(shape, k)
          IN  NewLayer(AudioFileOf(shape[i][k - Before(shape, i)]), i)]

StoreSlices(shape) ==
  [i \in 1..Len(shape) |->
     LET files == [k \in 1..Len(shape[i]) |-> AudioFileOf(shape[i][k])]
         mixed == combineAudio([k \in 1..Len(files) |-> files[k].audio])
     IN  [name |-> JoinNames([k \in 1..Len(files) |-> files[k].name]),
          audio |-> mixed,
          originalAudio |-> mixed,
          trim |-> "none",
          layers |-> [k \in 1..Len(files) |-> Before(shape, i) + k]]]

\* the stores a run starts from: the empty store of a fresh page, a small
\* session, and a session one short of both capacities
EmptyStore == <<>>
SmallStore == << <<"kick", "kick">>, <<"pad">>, <<"kick">> >>
FullStore ==
  << [k \in 1..(maxLayers - 1) |-> "kick"] >>
  \o [i \in 1..(maxSlices - 2) |-> <<"kick">>]

InitStores == {EmptyStore, SmallStore, FullStore}

Init ==
  \E shape \in InitStores :
    /\ slices = [i \in 1..Len(shape) |-> i]
    /\ sliceHeap = StoreSlices(shape)
    /\ layerHeap = StoreLayers(shape)
    /\ collected = {}
    /\ promise = [m \in Mutexes |-> 0]
    /\ resolved = [m \in Mutexes |-> {0}]
    /\ tasks = <<>>
    /\ recomps = {}
    /\ messages = <<>>
    /\ ops = 0
    /\ editSlice = 0
    /\ source = 0
    /\ voices = <<>>
    /\ audio = <<>>
    /\ instrumentName = <<>>
    /\ buffer = <<>>
    /\ headerData = <<>>

\* ------------------------------------------------------------ Mutex
\* lock() that awaits the first promise of the chain instead of the newest
LockWaitFirst(m) == 0

\* lock(): currentPromise = this.promise
LockWait(m) == promise[m]

\* lock(): this.promise = new Promise(...), the promise resolver() resolves
LockOwn(m) == promise[m] + 1

\* a release function that resolves nothing
UnlockLost(m, own) == resolved

\* the release function: resolver() resolves the caller's own promise
Unlock(m, own) == [resolved EXCEPT ![m] = @ \cup {own}]

MutexOf(op) == IF op = "addSlice" THEN "sliceMutex" ELSE "layerMutex"

\* ------------------------------------------------------------ derived values
totalSlices == Len(slices)

\* a capacity check that is one slice late
maxSlicesPassed == totalSlices > maxSlices

maxSlicesReached == totalSlices >= maxSlices

\* slices.value.reduce((sum, file) => sum + file.audio.duration, 0), in
\* frames, over the first k slices
RECURSIVE SumFrames(_)
SumFrames(k) ==
  IF k = 0 THEN 0
  ELSE SumFrames(k - 1) + Frames(sliceHeap[slices[k]].audio)

\* totalDuration, in frames
totalDuration == SumFrames(Len(slices))

durationExceeded == LongerThan(totalDuration, maxDuration)

\* ------------------------------------------------------------ messages
\* messagesStore.addMessage(text, level, options); name is the file name the
\* text quotes, empty when it quotes none
Message(kind, level, name) == [kind |-> kind, level |-> level, name |-> name]

\* a notification that is never delivered
AddMessageDropped(kind, level, name) == messages

AddMessage(kind, level, name) == Append(messages, Message(kind, level, name))

\* ------------------------------------------------------------ tasks
\* A task is one call of an async function.  pc is the await it is suspended
\* at; wait/own are the promises lock() gave it; mixed is the argument of the
\* combineAudio call it awaits; made is the object it created.
NewTask(op, s, l, f) ==
  [op |-> op, slice |-> s, layer |-> l, file |-> f, pc |-> "lock",
   wait |-> LockWait(MutexOf(op)), own |-> LockOwn(MutexOf(op)),
   mixed |-> <<>>, outcome |-> "pending", made |-> 0]

TaskIds == 1..Len(tasks)

\* the task holds its mutex: lock() has resolved and unlock() was not called
Holding(t) == tasks[t].pc \in {"load", "combine"}

Finish(t, outcome, made) ==
  [tasks EXCEPT ![t].pc = "done", ![t].outcome = outcome, ![t].made = made]

\* the slices and layers a caller can still pass in
Live(s) == s \in SliceIds /\ s \notin collected

Listed == {slices[i] : i \in 1..Len(slices)}

InList(s) == s \in Listed

\* the slices that are no longer (or not yet) in the list
Unlisted == SliceIds \ Listed

\* the calls a run may still make
MayCall == Len(tasks) + ops < MaxCalls

\* the Slice arguments tried: the slices at both ends of the list, the second
\* one, and every slice that is no longer in the list
SliceArgs ==
  ({slices[i] : i \in {1, 2, Len(slices)} \cap DOMAIN slices} \cup Unlisted)
    \ collected

\* the Slice arguments tried for layer edits: the first listed slice and
\* every slice that is no longer in the list
EditArgs ==
  ({slices[i] : i \in {1} \cap DOMAIN slices} \cup Unlisted) \ collected

\* the layers that are in the layer list of a slice
AttachedLayers ==
  UNION {{sliceHeap[s].layers[i] : i \in 1..Len(sliceHeap[s].layers)} :
         s \in SliceIds}

Attached(l) == l \in AttachedLayers

\* the Layer arguments tried: the first and last layer of the first listed
\* slice and of every slice that is no longer in the list (a caller can hold
\* a Layer whose Slice was collected), and every layer that is no longer in
\* its slice
LayerArgs ==
  UNION {{sliceHeap[s].layers[i] :
            i \in {1, Len(sliceHeap[s].layers)} \cap DOMAIN sliceHeap[s].layers} :
         s \in {slices[i] : i \in {1} \cap DOMAIN slices} \cup Unlisted}
  \cup (LayerIds \ AttachedLayers)

\* ------------------------------------------------------------ calls
\* addSlice(file), up to its await of sliceMutex.lock()
CallAddSlice(f) ==
  /\ MayCall
  /\ tasks' = Append(tasks, NewTask("addSlice", 0, 0, f))
  /\ promise' = [promise EXCEPT !["sliceMutex"] = LockOwn("sliceMutex")]
  /\ UNCHANGED <<slices, sliceHeap, layerHeap, collected, resolved, recomps,
                 messages, ops>>
  /\ UNCHANGED <<editSlice, playback, codec>>

\* addLayer(slice, file), up to its await of layerMutex.lock()
CallAddLayer(s, f) ==
  /\ MayCall
  /\ tasks' = Append(tasks, NewTask("addLayer", s, 0, f))
  /\ promise' = [promise EXCEPT !["layerMutex"] = LockOwn("layerMutex")]
  /\ UNCHANGED <<slices, sliceHeap, layerHeap, collected, resolved, recomps,
                 messages, ops>>
  /\ UNCHANGED <<editSlice, playback, codec>>

\* removeLayer(slice, layer), up to its await of layerMutex.lock()
CallRemoveLayer(s, l) ==
  /\ MayCall
  /\ tasks' = Append(tasks, NewTask("removeLayer", s, l, "none"))
  /\ promise' = [promise EXCEPT !["layerMutex"] = LockOwn("layerMutex")]
  /\ UNCHANGED <<slices, sliceHeap, layerHeap, collected, resolved, recomps,
                 messages, ops>>
  /\ UNCHANGED <<editSlice, playback, codec>>

\* ------------------------------------------------------------ recomposition
\* handleLayerChange(slice), up to its await: the argument of combineAudio,
\* read from the layer heap h
StartRecompose(h, layers) ==
  combineAudio([i \in 1..Len(layers) |-> h[layers[i]].audio])

\* a recomposition that assigns nothing
RecomposeSkipped(s, mixed) == sliceHeap

\* handleLayerChange(slice), after its await: originalAudio is assigned,
\* trimAudio(slice, slice.options.trim) and the name follow
Recompose(s, mixed) ==
  [sliceHeap EXCEPT ![s].originalAudio = mixed,
                    ![s].audio = applyTrim(mixed, sliceHeap[s].trim),
                    ![s].name = JoinNames(LayerNames(s))]

\* ------------------------------------------------------------ addSlice
\* an admission that does not look at the total duration
SliceAdmissionAnyDuration == IF maxSlicesReached THEN "maxSlices" ELSE "load"

\* the checks of addSlice
SliceAdmission ==
  IF maxSlicesReached THEN "maxSlices"
  ELSE IF durationExceeded THEN "totalDuration"
  ELSE "load"

\* addSlice resumes with the lock: the capacity and duration checks, then
\* the call of loadAudio
AddSliceLocked(t) ==
  /\ tasks[t].op = "addSlice" /\ tasks[t].pc = "lock"
  /\ tasks[t].wait \in resolved["sliceMutex"]
  /\ IF SliceAdmission = "load"
     THEN /\ tasks' = [tasks EXCEPT ![t].pc = "load"]
          /\ UNCHANGED <<messages, resolved>>
     ELSE /\ messages' = AddMessage(SliceAdmission, "warning",
                                    File(tasks[t].file).name)
          /\ tasks' = Finish(t, SliceAdmission, 0)
          /\ resolved' = Unlock("sliceMutex", tasks[t].own)
  /\ UNCHANGED <<slices, sliceHeap, layerHeap, collected, promise, recomps, ops>>
  /\ UNCHANGED <<editSlice, playback, codec>>

\* ------------------------------------------------------------ addLayer
\* slice.layers.length >= maxLayers
LayersFull(s) == Len(sliceHeap[s].layers) >= maxLayers

\* addLayer resumes with the lock: the capacity check, then the call of
\* loadAudio
AddLayerLocked(t) ==
  /\ tasks[t].op = "addLayer" /\ tasks[t].pc = "lock"
  /\ tasks[t].wait \in resolved["layerMutex"]
  /\ IF LayersFull(tasks[t].slice)
     THEN /\ messages' = AddMessage("maxLayers", "warning",
                                    File(tasks[t].file).name)
          /\ tasks' = Finish(t, "maxLayers", 0)
          /\ resolved' = Unlock("layerMutex", tasks[t].own)
     ELSE /\ tasks' = [tasks EXCEPT ![t].pc = "load"]
          /\ UNCHANGED <<messages, resolved>>
  /\ UNCHANGED <<slices, sliceHeap, layerHeap, collected, promise, recomps, ops>>
  /\ UNCHANGED <<editSlice, playback, codec>>

\* ------------------------------------------------------------ removeLayer
\* a minimum check that lets the last layer go
LastLayerGone(s) == Len(sliceHeap[s].layers) < 1

\* slice.layers.length <= 1
LastLayer(s) == Len(sliceHeap[s].layers) <= 1

\* slice.layers.splice(slice.layers.indexOf(layer), 1)
WithoutLayer(layers, l) == Splice(layers, IndexOf(layers, l), 1, <<>>)

\* removeLayer resumes with the lock: the minimum check, the splice and
\* handleLayerChange up to its await
RemoveLayerLocked(t) ==
  /\ tasks[t].op = "removeLayer" /\ tasks[t].pc = "lock"
  /\ tasks[t].wait \in resolved["layerMutex"]
  /\ IF LastLayer(tasks[t].slice)
     THEN /\ messages' = AddMessage("minLayers", "warning", <<>>)
          /\ tasks' = Finish(t, "minLayers", 0)
          /\ resolved' = Unlock("layerMutex", tasks[t].own)
          /\ UNCHANGED sliceHeap
     ELSE LET s == tasks[t].slice
              left == WithoutLayer(sliceHeap[s].layers, tasks[t].layer)
          IN  /\ sliceHeap' = [sliceHeap EXCEPT ![s].layers = left]
              /\ tasks' = [tasks EXCEPT ![t].pc = "combine",
                                        ![t].outcome = "ok",
                                        ![t].mixed = StartRecompose(layerHeap, left)]
              /\ UNCHANGED <<messages, resolved>>
  /\ UNCHANGED <<slices, layerHeap, collected, promise, recomps, ops>>
  /\ UNCHANGED <<editSlice, playback, codec>>

\* ------------------------------------------------------------ loadAudio
\* loadAudio returned undefined to its caller: addSlice goes to its finally,
\* addLayer calls handleLayerChange first
LoadRejected(t, kind, level) ==
  /\ messages' = AddMessage(kind, level, File(tasks[t].file).name)
  /\ IF tasks[t].op = "addSlice"
     THEN /\ tasks' = Finish(t, kind, 0)
          /\ resolved' = Unlock("sliceMutex", tasks[t].own)
     ELSE /\ tasks' = [tasks EXCEPT
                         ![t].pc = "combine",
                         ![t].outcome = kind,
                         ![t].mixed = StartRecompose(layerHeap,
                                        sliceHeap[tasks[t].slice].layers)]
          /\ UNCHANGED resolved

\* what loadAudio does with a file: file.arrayBuffer() rejects and the error
\* leaves loadAudio; decodeAudioData rejects; the buffer is too long; or the
\* record is returned
LoadResult(f) ==
  IF ~File(f).readable THEN "threw"
  ELSE IF ~File(f).decodes THEN "invalid"
  ELSE IF LongerThan(DecodedFrames(f), maxDuration) THEN "tooLong"
  ELSE "ok"

\* a Slice put in front of the list
PushSliceFront(list, s) == <<s>> \o list

\* slices.value.push(slice)
PushSlice(list, s) == Append(list, s)

\* slice.layers.push(layer)
PushLayer(layers, l) == Append(layers, l)

\* loadAudio settles.  Its awaits (file.arrayBuffer, decodeAudioData,
\* sumChannels) read and write only its locals, so they are one suspension.
\* Thrown: the caller's finally unlocks.  Rejected: a message, and undefined
\* is returned.  Loaded: addSlice pushes the new Slice and unlocks, addLayer
\* pushes the new Layer and calls handleLayerChange.
LoadSettled(t) ==
  /\ tasks[t].pc = "load"
  /\ LET r == LoadResult(tasks[t].file)
         l == Len(layerHeap) + 1
     IN  CASE r = "threw" ->
                /\ tasks' = Finish(t, "threw", 0)
                /\ resolved' = Unlock(MutexOf(tasks[t].op), tasks[t].own)
                /\ UNCHANGED <<slices, sliceHeap, layerHeap, messages>>
           [] r \in {"invalid", "tooLong"} ->
                /\ LoadRejected(t, r, IF r = "invalid" THEN "error" ELSE "warning")
                /\ UNCHANGED <<slices, sliceHeap, layerHeap>>
           [] r = "ok" /\ tasks[t].op = "addSlice" ->
                LET s == Len(sliceHeap) + 1
                IN  /\ sliceHeap' = Append(sliceHeap,
                                           NewSlice(AudioFileOf(tasks[t].file), l))
                    /\ layerHeap' = Append(layerHeap,
                                           NewLayer(AudioFileOf(tasks[t].file), s))
                    /\ slices' = PushSlice(slices, s)
                    /\ tasks' = Finish(t, "ok", s)
                    /\ resolved' = Unlock("sliceMutex", tasks[t].own)
                    /\ UNCHANGED messages
           [] r = "ok" /\ tasks[t].op = "addLayer" ->
                LET s == tasks[t].slice
                    grown == PushLayer(sliceHeap[s].layers, l)
                    heap == Append(layerHeap,
                                   NewLayer(AudioFileOf(tasks[t].file), s))
                IN  /\ layerHeap' = heap
                    /\ sliceHeap' = [sliceHeap EXCEPT ![s].layers = grown]
                    /\ tasks' = [tasks EXCEPT
                                   ![t].pc = "combine",
                                   ![t].outcome = "ok",
                                   ![t].made = l,
                                   ![t].mixed = StartRecompose(heap, grown)]
                    /\ UNCHANGED <<slices, resolved, messages>>
  /\ UNCHANGED <<collected, promise, recomps, ops>>
  /\ UNCHANGED <<editSlice, playback, codec>>

\* combineAudio returns to the handleLayerChange that addLayer or removeLayer
\* awaits; the caller then unlocks in its finally
Recomposed(t) ==
  /\ tasks[t].pc = "combine"
  /\ sliceHeap' = Recompose(tasks[t].slice, tasks[t].mixed)
  /\ tasks' = [tasks EXCEPT ![t].pc = "done"]
  /\ resolved' = Unlock("layerMutex", tasks[t].own)
  /\ UNCHANGED <<slices, layerHeap, collected, promise, recomps, messages, ops>>
  /\ UNCHANGED <<editSlice, playback, codec>>

\* ------------------------------------------------------------ synchronous calls
\* moveSliceUp: indexOf, splice(idx, 1), splice(idx - 1, 0, slice)
MovedUp(list, s) ==
  LET idx == IndexOf(list, s)
  IN  Splice(Splice(list, idx, 1, <<>>), idx - 1, 0, <<s>>)

\* moveSliceDown: indexOf, splice(idx, 1), splice(idx + 1, 0, slice)
MovedDown(list, s) ==
  LET idx == IndexOf(list, s)
  IN  Splice(Splice(list, idx, 1, <<>>), idx + 1, 0, <<s>>)

\* removeSlice: splice(indexOf(slice), 1)
Removed(list, s) == Splice(list, IndexOf(list, s), 1, <<>>)

moveSliceUp(s) ==
  /\ MayCall
  /\ slices' = MovedUp(slices, s)
  /\ ops' = ops + 1
  /\ UNCHANGED <<sliceHeap, layerHeap, collected, promise, resolved, tasks,
                 recomps, messages>>
  /\ UNCHANGED <<editSlice, playback, codec>>

moveSliceDown(s) ==
  /\ MayCall
  /\ slices' = MovedDown(slices, s)
  /\ ops' = ops + 1
  /\ UNCHANGED <<sliceHeap, layerHeap, collected, promise, resolved, tasks,
                 recomps, messages>>
  /\ UNCHANGED <<editSlice, playback, codec>>

removeSlice(s) ==
  /\ MayCall
  /\ slices' = Removed(slices, s)
  /\ ops' = ops + 1
  /\ UNCHANGED <<sliceHeap, layerHeap, collected, promise, resolved, tasks,
                 recomps, messages>>
  /\ UNCHANGED <<editSlice, playback, codec>>

\* setEditSlice(slice): editSlice.value = slice
setEditSlice(s) ==
  /\ MayCall
  /\ editSlice' = s
  /\ ops' = ops + 1
  /\ UNCHANGED <<slices, sliceHeap, layerHeap, collected, promise, resolved,
                 tasks, recomps, messages>>
  /\ UNCHANGED <<playback, codec>>

\* trimAudio(file, option) for a Slice: the option, the audio; a Slice has no
\* "slice" key, so nothing follows.  (ctx is a constant and never undefined.)
trimSlice(s, option) ==
  /\ MayCall
  /\ sliceHeap' = [sliceHeap EXCEPT
                     ![s].trim = option,
                     ![s].audio = applyTrim(sliceHeap[s].originalAudio, option)]
  /\ ops' = ops + 1
  /\ UNCHANGED <<slices, layerHeap, collected, promise, resolved, tasks,
                 recomps, messages>>
  /\ UNCHANGED <<editSlice, playback, codec>>

\* file.slice.deref(): the Slice, or undefined once it was collected
Deref(s) == IF s \in collected THEN 0 ELSE s

\* trimAudio(file, option) for a Layer: the option, the audio, then
\* handleLayerChange on the owning Slice if the WeakRef still resolves; the
\* promise handleLayerChange returns is dropped
trimLayer(l, option) ==
  /\ MayCall
  /\ LET s == Deref(layerHeap[l].slice)
         heap == [layerHeap EXCEPT
                    ![l].trim = option,
                    ![l].audio = applyTrim(layerHeap[l].originalAudio, option)]
     IN  /\ layerHeap' = heap
         /\ IF s # 0
            THEN recomps' = recomps \cup
                   {[slice |-> s,
                     mixed |-> StartRecompose(heap, sliceHeap[s].layers)]}
            ELSE UNCHANGED recomps
  /\ ops' = ops + 1
  /\ UNCHANGED <<slices, sliceHeap, collected, promise, resolved, tasks, messages>>
  /\ UNCHANGED <<editSlice, playback, codec>>

\* combineAudio returns to a handleLayerChange that trimAudio started
RecomposedDetached(r) ==
  /\ r \in recomps
  /\ sliceHeap' = Recompose(r.slice, r.mixed)
  /\ recomps' = recomps \ {r}
  /\ UNCHANGED <<slices, layerHeap, collected, promise, resolved, tasks,
                 messages, ops>>
  /\ UNCHANGED <<editSlice, playback, codec>>

\* the garbage collector reclaims a Slice nothing reaches any more: it is
\* out of the list and not selected, no running call has it as argument and
\* no pending recomposition holds it (Layers reach it through a WeakRef only)
Reachable(s) ==
  \/ InList(s)
  \/ editSlice = s
  \/ \E t \in TaskIds : tasks[t].pc # "done" /\ tasks[t].slice = s
  \/ \E r \in recomps : r.slice = s

Collect(s) ==
  /\ Live(s) /\ ~Reachable(s)
  /\ collected' = collected \cup {s}
  /\ UNCHANGED <<slices, sliceHeap, layerHeap, promise, resolved, tasks,
                 recomps, messages, ops>>
  /\ UNCHANGED <<editSlice, playback, codec>>

\* ------------------------------------------------------------ specification
Next ==
  \/ \E f \in FileIds : CallAddSlice(f)
  \/ \E s \in EditArgs, f \in FileIds : CallAddLayer(s, f)
  \/ \E s \in EditArgs, l \in LayerArgs : CallRemoveLayer(s, l)
  \/ \E t \in TaskIds : AddSliceLocked(t)
  \/ \E t \in TaskIds : AddLayerLocked(t)
  \/ \E t \in TaskIds : RemoveLayerLocked(t)
  \/ \E t \in TaskIds : LoadSettled(t)
  \/ \E t \in TaskIds : Recomposed(t)
  \/ \E s \in SliceArgs : moveSliceUp(s)
  \/ \E s \in SliceArgs : moveSliceDown(s)
  \/ \E s \in SliceArgs : removeSlice(s)
  \/ \E s \in SliceArgs, o \in TrimOption : trimSlice(s, o)
  \/ \E l \in LayerArgs, o \in TrimOption : trimLayer(l, o)
  \/ \E r \in recomps : RecomposedDetached(r)
  \/ \E s \in Unlisted : Collect(s)

Spec == Init /\ [][Next]_vars

\* the store with its selection: Spec leaves setEditSlice out because no
\* other function of the store reads or writes editSlice
NextEdit ==
  \/ Next
  \/ \E s \in SliceArgs : setEditSlice(s)

SpecEdit == Init /\ [][NextEdit]_vars

\* The event loop runs every continuation whose promise has settled, and the
\* collaborators (file read, decode, downmix, combine) settle every call.
Resume ==
  \E t \in TaskIds :
    \/ AddSliceLocked(t)
    \/ AddLayerLocked(t)
    \/ RemoveLayerLocked(t)
    \/ LoadSettled(t)
    \/ Recomposed(t)

\* a settled promise runs its continuation: the microtask queue never
\* leaves a resumable call suspended for ever
SpecLive == Spec /\ WF_vars(Resume)

\* ------------------------------------------------------------ playback
\* voices created in one run
MaxVoices == 3

\* new AudioBufferSourceNode(ctx, { buffer }): not started, not connected
NewVoice(audioBuffer) ==
  [buffer |-> audioBuffer, started |-> FALSE, stopped |-> FALSE,
   connected |-> FALSE]

VoiceIds == 1..Len(voices)

\* the voice sounds: start() was called and stop() was not
Playing(n) == voices[n].started /\ ~voices[n].stopped

\* source?.stop() raises InvalidStateError on a node start() was never
\* called on; the error leaves stopPlayback before source = null
StopThrows == source # 0 /\ ~voices[source].started

\* a stop that leaves the voice as it is
StopVoiceKept(vs, n) == vs

\* source?.stop(); source?.disconnect()
StopVoice(vs, n) ==
  IF n = 0 THEN vs
  ELSE [vs EXCEPT ![n].stopped = TRUE, ![n].connected = FALSE]

\* the AudioFile arguments tried: Slices and Layers of the store
PlayableFiles ==
  {[kind |-> "slice", id |-> s] : s \in SliceArgs}
    \cup {[kind |-> "layer", id |-> l] : l \in LayerArgs}

\* const { audio: buffer } = file
FileAudio(file) ==
  IF file.kind = "slice" THEN sliceHeap[file.id].audio
  ELSE layerHeap[file.id].audio

\* stopPlayback(): stop and disconnect the source if there is one, then
\* source = null
stopPlayback ==
  /\ ~StopThrows
  /\ voices' = StopVoice(voices, source)
  /\ source' = 0
  /\ UNCHANGED <<store, editSlice, codec>>

\* getAudioBufferSourceNode(file): stopPlayback(), then a new node for
\* file.audio becomes the source and is returned
getAudioBufferSourceNode(file) ==
  /\ Len(voices) < MaxVoices
  /\ ~StopThrows
  /\ voices' = Append(StopVoice(voices, source), NewVoice(FileAudio(file)))
  /\ source' = Len(voices) + 1
  /\ UNCHANGED <<store, editSlice, codec>>

\* the caller connects the node it was given to the destination and starts it
StartVoice(n) ==
  /\ ~voices[n].started
  /\ voices' = [voices EXCEPT ![n].started = TRUE, ![n].connected = TRUE]
  /\ UNCHANGED <<source, store, editSlice, codec>>

NextPlayback ==
  \/ stopPlayback
  \/ \E file \in PlayableFiles : getAudioBufferSourceNode(file)
  \/ \E n \in VoiceIds : StartVoice(n)

\* the preview alone, over the stores of Init: no store function reads or
\* writes source, and the preview reads file.audio only when it is called
SpecPlayback == Init /\ [][NextPlayback]_vars

\* ------------------------------------------------------------ codec
\* An ArrayBuffer is the sequence of its bytes: the byte at offset o is
\* element o + 1.  A clip (Float32Array) is the sequence of its samples, a
\* string the sequence of its character codes.
\* clips passed to one export, and frames of one clip
MaxClips == 49
MaxFrames == 2

\* headerFieldOffset: the byte offset of each header field
headerFieldOffset ==
  [isWavetable |-> 20, instrumentName |-> 21, sampleLength |-> 60,
   samplePlayback |-> 76, slices |-> 280, totalSlices |-> 376]

\* defaultPtiHeader.byteLength
headerByteLength == 392

\* the entries of the slice-offset table parseHeader reads: Array(48)
sliceEntries == 48

\* the divisor of a slice offset: the largest uint16
offsetScale == 65535

\* the bytes of the instrument name field
nameBytes == 31

\* samplePlayback: the members of the enumeration
samplePlayback ==
  [ONE_SHOT |-> 0, FORWARD_LOOP |-> 1, BACKWARD_LOOP |-> 2,
   PINGPONG_LOOP |-> 3, SLICE |-> 4, BEAT_SLICE |-> 5, WAVETABLE |-> 6,
   GRANULAR |-> 7]

\* defaultPtiHeader: the header template
defaultPtiHeader == [o \in 1..headerByteLength |-> 0]

\* DataView.getUint8 / setUint8
GetUint8(view, offset) == view[offset + 1]

SetUint8(view, offset, value) ==
  [view EXCEPT ![offset + 1] = value % 256]

\* DataView.getUint16(offset, true) / setUint16(offset, value, true)
GetUint16(view, offset) == view[offset + 1] + 256 * view[offset + 2]

SetUint16(view, offset, value) ==
  [view EXCEPT ![offset + 1] = (value % 65536) % 256,
               ![offset + 2] = (value % 65536) \div 256]

\* DataView.setUint32(offset, value, true), for values below 2^31
SetUint32(view, offset, value) ==
  [view EXCEPT ![offset + 1] = value % 256,
               ![offset + 2] = (value \div 256) % 256,
               ![offset + 3] = (value \div 65536) % 256,
               ![offset + 4] = (value \div 16777216) % 256]

\* new Uint8Array(buffer, offset, length).set(bytes) for as many bytes
SetBytes(view, offset, bytes) ==
  [o \in 1..Len(view) |->
     IF o > offset /\ o <= offset + Len(bytes) THEN bytes[o - offset]
     ELSE view[o]]

\* the frames of clips lo..hi, summed by halves
RECURSIVE FramesIn(_, _, _)
FramesIn(clips, lo, hi) ==
  IF lo > hi THEN 0
  ELSE IF lo = hi THEN Len(clips[lo])
  ELSE LET mid == (lo + hi) \div 2
       IN  FramesIn(clips, lo, mid) + FramesIn(clips, mid + 1, hi)

\* offset after k turns of the loop: the frames of the first k clips
FramesBefore(clips, k) == FramesIn(clips, 1, k)

\* mergeFloat32Arrays(audio): the clips one after the other
mergeFloat32Arrays(arrays) ==
  [j \in 1..FramesBefore(arrays, Len(arrays)) |->
     LET i == CHOOSE i \in 1..Len(arrays) :
                FramesBefore(arrays, i - 1) < j /\ j <= FramesBefore(arrays, i)
     IN  arrays[i][j - FramesBefore(arrays, i - 1)]]

\* float32ToInt16: a sample scaled to the signed 16-bit range and clamped
float32ToInt16(x) ==
  IF x < 0 THEN Max(x * 32768, -32768) ELSE Min(x * 32767, 32767)

\* the two bytes of an Int16Array element, little-endian two's complement
Int16Bytes(v) ==
  LET u == (v + 65536) % 65536 IN <<u % 256, u \div 256>>

\* new Int16Array(buffer, byteLength).set(float32ToInt16(data))
PcmBytes(data) ==
  [j \in 1..(2 * Len(data)) |->
     Int16Bytes(float32ToInt16(data[(j + 1) \div 2]))[((j - 1) % 2) + 1]]

\* getPtiFile(data): the template, the payload length, the PCM payload
getPtiFile(data) ==
  LET length == Len(data) * 2
  IN  SetUint32(defaultPtiHeader, headerFieldOffset.sampleLength, length)
        \o PcmBytes(data)

\* (instrumentName || "stitched").substring(0, 31).padEnd(31, "\x00")
stitched == <<115, 116, 105, 116, 99, 104, 101, 100>>

NameField(name) ==
  LET n == IF name = <<>> THEN stitched ELSE name
      cut == SubSeq(n, 1, Min(Len(n), nameBytes))
  IN  cut \o [i \in 1..(nameBytes - Len(cut)) |-> 0]

\* (offset / totalLength) * 65535 as setUint16 stores it: truncated to an
\* integer, NaN (0 / 0) stored as 0.  For frame counts in this range the
\* double product truncates to the same integer as the exact quotient.
SliceOffsetValue(offset, totalLength) ==
  IF totalLength = 0 THEN 0 ELSE (offset * offsetScale) \div totalLength

\* the loop over audio.entries(): entry idx is written at slices + idx * 2,
\* whatever idx is, with offset the frames of the clips before it.  The
\* writes of different turns do not overlap, so each byte of the result is
\* the byte its turn wrote (MaxClips keeps every write inside the header).
WriteOffsets(view, clips, totalLength) ==
  [o \in 1..Len(view) |->
     LET at == o - 1 - headerFieldOffset.slices
         idx == at \div 2
     IN  IF at >= 0 /\ idx < Len(clips)
         THEN GetUint8(SetUint16(view, headerFieldOffset.slices + idx * 2,
                                 SliceOffsetValue(FramesBefore(clips, idx),
                                                  totalLength)),
                       o - 1)
         ELSE view[o]]

\* createBeatSlicedPtiFromSamples up to the loop: the name, the playback
\* mode and the slice count are written
BeatSlicedHeader(clips, name) ==
  LET mergedAudio == mergeFloat32Arrays(clips)
      named == SetBytes(getPtiFile(mergedAudio),
                        headerFieldOffset.instrumentName, NameField(name))
      moded == SetUint8(named, headerFieldOffset.samplePlayback,
                        samplePlayback.BEAT_SLICE)
  IN  SetUint8(moded, headerFieldOffset.totalSlices, Len(clips))

\* createBeatSlicedPtiFromSamples(audio, instrumentName): the buffer returned
CreateBeatSliced(clips, name) ==
  WriteOffsets(BeatSlicedHeader(clips, name), clips,
               Len(mergeFloat32Arrays(clips)))

\* a slice offset as parseHeader returns it: getUint16 / 65535, a fraction
Fraction(value) == [num |-> value, den |-> offsetScale]

\* a truncation that keeps every entry
TruncatedNot(list, count) == list

\* headerData.slices.splice(headerData.totalSlices)
Truncated(list, count) == Splice(list, count, Len(list), <<>>)

\* samplePlayback: a byte outside the enumeration reads as ONE_SHOT
PlaybackOf(value) ==
  IF value \in {samplePlayback[k] : k \in DOMAIN samplePlayback} THEN value
  ELSE samplePlayback.ONE_SHOT

\* asciiDecoder.decode(31 bytes).replaceAll("\x00", "")
DecodedName(view) ==
  SelectSeq(SubSeq(view, headerFieldOffset.instrumentName + 1,
                   headerFieldOffset.instrumentName + nameBytes),
            LAMBDA c : c # 0)

\* parseHeader(header): every field by its kind, then the truncation
ParseHeader(view) ==
  LET total == GetUint8(view, headerFieldOffset.totalSlices)
      table == [i \in 1..sliceEntries |->
                  Fraction(GetUint16(view, headerFieldOffset.slices + (i - 1) * 2))]
  IN  [isWavetable |-> GetUint8(view, headerFieldOffset.isWavetable) = 1,
       instrumentName |-> DecodedName(view),
       sampleLength |-> GetUint8(view, headerFieldOffset.sampleLength),
       samplePlayback |->
         PlaybackOf(GetUint8(view, headerFieldOffset.samplePlayback)),
       totalSlices |-> total,
       slices |-> Truncated(table, total)]

\* the clip lists tried: n clips whose frame counts follow a pattern (one
\* frame each; 0, 1, 2, ... frames in turn; no frame at all)
ClipFrames(pattern, i) ==
  CASE pattern = "even"  -> 1
    [] pattern = "ramp"  -> i % (MaxFrames + 1)
    [] pattern = "empty" -> 0

ClipList(pattern, n) ==
  [i \in 1..n |-> [k \in 1..ClipFrames(pattern, i) |-> (i % 3) - 1]]

ClipLists ==
  {ClipList(pattern, n) : pattern \in {"even", "ramp", "empty"},
                          n \in 0..MaxClips}

\* the instrument names tried: none, a short one, one of 32 characters
Names == {<<>>, <<97, 98>>, [i \in 1..(nameBytes + 1) |-> 96 + (i % 26)]}

\* a .pti file written elsewhere: any total-slices byte over a full table
ForeignFile(total) ==
  SetUint8([o \in 1..headerByteLength |->
              IF o > headerFieldOffset.slices
                 /\ o <= headerFieldOffset.slices + 2 * sliceEntries
              THEN (o * 37) % 256 ELSE 0],
           headerFieldOffset.totalSlices, total)

InitCodec ==
  /\ slices = <<>> /\ sliceHeap = <<>> /\ layerHeap = <<>>
  /\ collected = {}
  /\ promise = [m \in Mutexes |-> 0]
  /\ resolved = [m \in Mutexes |-> {0}]
  /\ tasks = <<>> /\ recomps = {} /\ messages = <<>> /\ ops = 0
  /\ editSlice = 0 /\ source = 0 /\ voices = <<>>
  /\ audio \in ClipLists
  /\ instrumentName \in Names
  /\ buffer = <<>>
  /\ headerData = <<>>

\* the export: createBeatSlicedPtiFromSamples(audio, instrumentName)
createBeatSlicedPtiFromSamples ==
  /\ buffer = <<>>
  /\ buffer' = CreateBeatSliced(audio, instrumentName)
  /\ UNCHANGED <<audio, instrumentName, headerData, store, editSlice, playback>>

\* a file from elsewhere is opened instead; it does not depend on the
\* arguments of an export, so it is tried where there are none
OpenFile(total) ==
  /\ buffer = <<>> /\ audio = <<>> /\ instrumentName = <<>>
  /\ buffer' = ForeignFile(total)
  /\ UNCHANGED <<audio, instrumentName, headerData, store, editSlice, playback>>

\* parseHeader(buffer)
parseHeader ==
  /\ buffer # <<>> /\ headerData = <<>>
  /\ headerData' = ParseHeader(buffer)
  /\ UNCHANGED <<audio, instrumentName, buffer, store, editSlice, playback>>

NextCodec ==
  \/ createBeatSlicedPtiFromSamples
  \/ \E total \in 0..255 : OpenFile(total)
  \/ parseHeader

SpecCodec == InitCodec /\ [][NextCodec]_vars

\* ------------------------------------------------------------ properties
SameMutex(t, u) == MutexOf(tasks[t].op) = MutexOf(tasks[u].op)

\* C1: on each mutex at most one caller is between the resolution of its
\* lock() promise and its call of the release function: two critical
\* sections of one mutex never overlap.
MutualExclusion ==
  \A t, u \in TaskIds :
    (t # u /\ SameMutex(t, u)) => ~(Holding(t) /\ Holding(u))

\* a caller holds a mutex while another call waits for the same mutex
ContendedLock ==
  \E t, u \in TaskIds :
    /\ t # u /\ SameMutex(t, u)
    /\ Holding(t) /\ tasks[u].pc = "lock"

\* C2: locks are granted in call order: a call that has entered its
\* critical section finds every earlier call on the same mutex finished.
FifoGrant ==
  \A t, u \in TaskIds :
    (t < u /\ SameMutex(t, u) /\ tasks[u].pc # "lock") => tasks[t].pc = "done"

\* the later of two calls on one mutex holds it, the earlier one is finished
SecondGranted ==
  \E t, u \in TaskIds :
    /\ t < u /\ SameMutex(t, u)
    /\ Holding(u) /\ tasks[t].pc = "done"

\* C3: no call blocks for ever: every addSlice, addLayer and removeLayer
\* call gets its lock and finishes, and a finished call has released its
\* lock whatever its exit path was (success, rejection or a thrown error).
EveryCallFinishes ==
  /\ \A i \in 1..MaxCalls :
       (Len(tasks) >= i) ~> (Len(tasks) >= i /\ tasks[i].pc = "done")
  /\ [](\A t \in TaskIds :
          tasks[t].pc = "done" =>
            tasks[t].own \in resolved[MutexOf(tasks[t].op)])

\* a call that left its critical section through a thrown error was followed
\* to the end by a later call on the same mutex
FinishedAfterThrow ==
  \E t, u \in TaskIds :
    /\ t < u /\ SameMutex(t, u)
    /\ tasks[t].outcome = "threw"
    /\ tasks[u].pc = "done"

\* C4: every Slice has between 1 and maxLayers Layers in every reachable
\* state, whatever addLayer, removeLayer, addSlice, removeSlice and trimAudio
\* calls were made and however they interleaved; so a removeLayer that would
\* leave a Slice without Layers is never carried out.
LayerCountBounds ==
  \A s \in SliceIds :
    1 <= Len(sliceHeap[s].layers) /\ Len(sliceHeap[s].layers) <= maxLayers

\* a removeLayer call on a Slice with a single Layer was rejected
LastLayerKept ==
  \E t \in TaskIds :
    /\ tasks[t].op = "removeLayer"
    /\ tasks[t].outcome = "minLayers"
    /\ Len(sliceHeap[tasks[t].slice].layers) = 1

\* C5: the slice list never holds more than maxSlices Slices, for any
\* addSlice calls interleaved with removeSlice, moveSliceUp and moveSliceDown
\* calls that run while an addSlice is suspended.
SliceCountBound == Len(slices) <= maxSlices

\* the list is full and an addSlice call was rejected for it
ListFull ==
  /\ Len(slices) = maxSlices
  /\ \E t \in TaskIds : tasks[t].outcome = "maxSlices"

\* C6: concurrent addLayer calls on one Slice with loadable files each add
\* their own Layer, and the Layers stand in the Slice in call order: while no
\* removeLayer call touches the Slice, its last Layers are exactly those the
\* calls made, in call order, and a call is turned down only at maxLayers.
Adders(s) ==
  {t \in TaskIds : tasks[t].op = "addLayer" /\ tasks[t].slice = s
                   /\ tasks[t].made # 0}

Settled(t) == tasks[t].pc \in {"combine", "done"}

LayersInCallOrder ==
  \A s \in SliceIds :
    (\A t \in TaskIds : ~(tasks[t].op = "removeLayer" /\ tasks[t].slice = s)) =>
      LET layers == sliceHeap[s].layers
          n == Cardinality(Adders(s))
      IN  /\ n <= Len(layers)
          /\ \A t \in Adders(s) :
               layers[Len(layers) - n + Cardinality({u \in Adders(s) : u <= t})]
                 = tasks[t].made
          /\ \A t \in TaskIds :
               (/\ tasks[t].op = "addLayer" /\ tasks[t].slice = s
                /\ LoadResult(tasks[t].file) = "ok" /\ Settled(t))
               => \/ t \in Adders(s)
                  \/ tasks[t].outcome = "maxLayers" /\ Len(layers) = maxLayers

\* two addLayer calls on one Slice have both added their Layer
TwoLayersAdded ==
  \E t, u \in TaskIds :
    /\ t < u
    /\ tasks[t].op = "addLayer" /\ tasks[u].op = "addLayer"
    /\ tasks[t].slice = tasks[u].slice
    /\ tasks[t].pc = "done" /\ tasks[u].pc = "done"
    /\ tasks[t].made # 0 /\ tasks[u].made # 0

\* no addLayer or removeLayer call and no recomposition is in flight for s
Quiescent(s) ==
  /\ \A t \in TaskIds : tasks[t].slice = s => tasks[t].pc = "done"
  /\ \A r \in recomps : r.slice # s

\* C7: no stale composite: whenever nothing is in flight for a Slice, its
\* originalAudio is the sum of the current audio of its current Layers and
\* its audio is its trim option applied to that sum.
NoStaleComposite ==
  \A s \in SliceIds \ collected :
    Quiescent(s) =>
      /\ sliceHeap[s].originalAudio = combineAudio(LayerAudio(s))
      /\ sliceHeap[s].audio =
           applyTrim(sliceHeap[s].originalAudio, sliceHeap[s].trim)

\* the layer lists of all Slices
LayerLists == [s \in SliceIds |-> sliceHeap[s].layers]

Rejections ==
  {"maxSlices", "totalDuration", "invalid", "tooLong", "maxLayers", "minLayers"}

ListsKept == slices' = slices /\ LayerLists' = LayerLists

\* C8: a rejected call commits nothing: the step that rejects an addSlice,
\* addLayer or removeLayer call emits one notification of that rejection, and
\* neither it nor any other step of a rejected or not yet loaded call changes
\* the slice list or a layer list.
RejectionCommitsNothing ==
  [][\A t \in TaskIds :
       /\ (tasks[t].outcome = "pending" /\ tasks'[t].outcome \in Rejections) =>
            /\ ListsKept
            /\ Len(messages') = Len(messages) + 1
            /\ SubSeq(messages', 1, Len(messages)) = messages
            /\ messages'[Len(messages')].kind = tasks'[t].outcome
       /\ (tasks'[t].outcome \in Rejections /\ tasks'[t] # tasks[t]) => ListsKept
       /\ (tasks[t].pc = "lock" /\ tasks'[t].pc = "load") => ListsKept
    ]_vars

\* an addSlice call was rejected because the total duration was exceeded,
\* and the notification is in the message store
DurationRejected ==
  \E t \in TaskIds :
    /\ tasks[t].op = "addSlice"
    /\ tasks[t].outcome = "totalDuration"
    /\ \E i \in 1..Len(messages) : messages[i].kind = "totalDuration"

\* C9: a successful addSlice appends exactly one new Slice at the end of
\* the list; the Slice has exactly one Layer, a new one, whose audio is the
\* loaded clip, whose trim is none and whose back-reference resolves to the
\* new Slice.
AddSliceAppends ==
  [][\A t \in TaskIds :
       (/\ tasks[t].op = "addSlice"
        /\ tasks[t].outcome = "pending" /\ tasks'[t].outcome = "ok") =>
         LET new == tasks'[t].made
         IN  /\ new \notin SliceIds
             /\ Len(slices') = Len(slices) + 1
             /\ slices' = Append(slices, new)
             /\ Len(sliceHeap'[new].layers) = 1
             /\ LET l == sliceHeap'[new].layers[1]
                IN  /\ l \notin LayerIds
                    /\ layerHeap'[l].audio =
                         sumChannels(File(tasks[t].file).channels)
                    /\ layerHeap'[l].trim = "none"
                    /\ layerHeap'[l].slice = new
                    /\ new \notin collected'
    ]_vars

\* an addSlice call has added its Slice behind the Slices already there
SliceAdded ==
  \E t \in TaskIds :
    /\ tasks[t].op = "addSlice" /\ tasks[t].outcome = "ok"
    /\ Len(slices) >= 2
    /\ slices[Len(slices)] = tasks[t].made

\* the list with the Slices at 0-based positions i and j exchanged
Swapped(list, i, j) ==
  [k \in 1..Len(list) |->
     IF k = i + 1 THEN list[j + 1] ELSE IF k = j + 1 THEN list[i + 1] ELSE list[k]]

\* C10: moveSliceUp on the first Slice and moveSliceDown on the last Slice
\* leave the list as it is; at any other position the Slice changes places
\* with its neighbour and every other Slice keeps its position.
MovesClampAtEnds ==
  \A s \in Listed :
    LET idx == IndexOf(slices, s)
        last == Len(slices) - 1
    IN  /\ idx = 0 => MovedUp(slices, s) = slices
        /\ idx = last => MovedDown(slices, s) = slices
        /\ idx > 0 => MovedUp(slices, s) = Swapped(slices, idx, idx - 1)
        /\ idx < last => MovedDown(slices, s) = Swapped(slices, idx, idx + 1)

\* C11: at most one playback voice is active.  Every voice other than the
\* source is stopped and released; getAudioBufferSourceNode has stopped and
\* released the previous source when a new node becomes the source; and
\* stopPlayback without a source changes nothing.
SingleVoice ==
  /\ [](/\ Cardinality({n \in VoiceIds : Playing(n)}) <= 1
        /\ \A n \in VoiceIds :
             n # source => voices[n].stopped /\ ~voices[n].connected)
  /\ [][/\ (source' # source /\ source' # 0) =>
             /\ source' \notin VoiceIds
             /\ source # 0 => voices'[source].stopped /\ ~voices'[source].connected
        /\ (source = 0 /\ source' = 0) => voices' = voices
       ]_vars

\* a second voice plays after the first one was preempted while it played
VoicePreempted ==
  /\ Len(voices) >= 2
  /\ source = 2 /\ Playing(2)
  /\ voices[1].started /\ voices[1].stopped

\* the buffer is the one createBeatSlicedPtiFromSamples built from audio,
\* and parseHeader has read it
ExportParsed ==
  /\ headerData # <<>>
  /\ buffer = CreateBeatSliced(audio, instrumentName)

\* C12: beat-slice offset law: for N clips, entry k read back by parseHeader
\* is floor(65535 * (frames before clip k) / (all frames)) / 65535 for every
\* k < N; the entries do not decrease, each stored value fits in 16 bits and
\* entry 0 is 0.
OffsetLaw ==
  ExportParsed =>
    LET N == Len(audio)
        total == FramesBefore(audio, N)
        read == headerData.slices
    IN  /\ Len(read) >= N
        /\ \A k \in 0..(N - 1) :
             /\ total > 0 =>
                  read[k + 1] =
                    Fraction((offsetScale * FramesBefore(audio, k)) \div total)
             /\ read[k + 1].num \in 0..offsetScale
             /\ k > 0 => read[k].num <= read[k + 1].num
        /\ N > 0 => read[1].num = 0

\* C13: slice-count round trip: parseHeader of the built buffer returns
\* totalSlices = N and a slice list of N entries, and the offsets written
\* changed no byte of the header outside the slice-offset table.
SliceCountRoundTrip ==
  ExportParsed =>
    LET N == Len(audio)
        before == BeatSlicedHeader(audio, instrumentName)
    IN  /\ headerData.totalSlices = N
        /\ Len(headerData.slices) = N
        /\ \A o \in 0..(headerByteLength - 1) :
             (o < headerFieldOffset.slices
              \/ o >= headerFieldOffset.slices + 2 * sliceEntries)
             => GetUint8(buffer, o) = GetUint8(before, o)

\* the slice list holds the first entries of the table of the buffer
EntriesRead ==
  \A i \in 1..Len(headerData.slices) :
    headerData.slices[i] =
      Fraction(GetUint16(buffer, headerFieldOffset.slices + (i - 1) * 2))

\* C14 as stated: for every total-slices byte the slice list parseHeader
\* returns has exactly totalSlices entries, each the little-endian uint16 of
\* the table over 65535.
TruncatedToTotal ==
  headerData # <<>> =>
    /\ headerData.totalSlices = GetUint8(buffer, headerFieldOffset.totalSlices)
    /\ Len(headerData.slices) = headerData.totalSlices
    /\ EntriesRead

\* C14 amended: the slice list has min(totalSlices, 48) entries: the table
\* has 48 entries and splice only shortens it.
TruncatedToTable ==
  headerData # <<>> =>
    /\ headerData.totalSlices = GetUint8(buffer, headerFieldOffset.totalSlices)
    /\ Len(headerData.slices) = Min(headerData.totalSlices, sliceEntries)
    /\ EntriesRead

\* a header whose total-slices byte is below the table size was parsed and
\* entries of the table were dropped
EntriesDropped ==
  /\ headerData # <<>>
  /\ headerData.totalSlices \in 1..(sliceEntries - 1)
  /\ Len(headerData.slices) = headerData.totalSlices
  /\ GetUint16(buffer, headerFieldOffset.slices + 2 * headerData.totalSlices) # 0

\* C15: trimAudio on a Layer whose owning Slice is no longer in the slice
\* list triggers no recomposition and changes no Slice: only the Layer's own
\* trim option and audio change.
StaleTrimRecomposesNothing ==
  [][\A l \in LayerIds :
       (layerHeap'[l] # layerHeap[l] /\ ~InList(layerHeap[l].slice)) =>
         /\ recomps' = recomps
         /\ sliceHeap' = sliceHeap
         /\ slices' = slices
         /\ \A k \in LayerIds \ {l} : layerHeap'[k] = layerHeap[k]
    ]_vars

\* C16: every structural layer change is one step of an addLayer or
\* removeLayer call that holds the layer lock and starts the recomposition
\* of that Slice from its new Layer list in the same step; the call keeps
\* the lock until that recomposition has assigned originalAudio, audio and
\* name, releases it in that step, and recomposes once.
RecomposedInsideLock ==
  /\ [](\A t \in TaskIds :
          tasks[t].own \in resolved[MutexOf(tasks[t].op)] => tasks[t].pc = "done")
  /\ [][/\ \A s \in SliceIds :
             sliceHeap'[s].layers # sliceHeap[s].layers =>
               \E t \in TaskIds :
                 /\ tasks[t].op \in {"addLayer", "removeLayer"}
                 /\ tasks[t].slice = s
                 /\ Holding(t) \/ tasks[t].wait \in resolved["layerMutex"]
                 /\ tasks[t].outcome = "pending" /\ tasks'[t].outcome = "ok"
                 /\ tasks'[t].pc = "combine"
                 /\ tasks'[t].mixed = combineAudio(LayerAudio(s))'
                 /\ \A u \in TaskIds \ {t} : tasks'[u] = tasks[u]
        /\ \A t \in TaskIds :
             /\ (tasks[t].pc = "combine" /\ tasks'[t].pc # "combine") =>
                  LET s == tasks[t].slice
                  IN  /\ tasks'[t].pc = "done"
                      /\ sliceHeap'[s].originalAudio = tasks[t].mixed
                      /\ sliceHeap'[s].audio =
                           applyTrim(tasks[t].mixed, sliceHeap'[s].trim)
                      /\ sliceHeap'[s].name = JoinNames(LayerNames(s))'
                      /\ sliceHeap'[s].layers = sliceHeap[s].layers
             /\ tasks[t].pc = "done" => tasks'[t] = tasks[t]
             /\ tasks'[t].pc = "combine" => tasks[t].pc \in {"lock", "load", "combine"}
       ]_vars

\* a removeLayer call has removed a Layer, recomposed the Slice and finished
LayerRemovedAndRecomposed ==
  \E t \in TaskIds :
    /\ tasks[t].op = "removeLayer"
    /\ tasks[t].outcome = "ok" /\ tasks[t].pc = "done"
    /\ sliceHeap[tasks[t].slice].originalAudio =
         combineAudio(LayerAudio(tasks[t].slice))

\* C17: addSlice admits on the state it finds when it has the slice lock:
\* at capacity, or with the current total duration above maxDuration, it
\* rejects and never loads; otherwise it loads, and a source that loads is
\* appended whatever its own duration adds to the total.
AdmissionIsPreState ==
  [][\A t \in TaskIds :
       tasks[t].op = "addSlice" =>
         /\ (tasks[t].pc = "lock" /\ tasks'[t].pc # "lock") =>
              /\ tasks[t].wait \in resolved["sliceMutex"]
              /\ IF totalSlices >= maxSlices
                 THEN tasks'[t].pc = "done" /\ tasks'[t].outcome = "maxSlices"
                 ELSE IF LongerThan(totalDuration, maxDuration)
                 THEN tasks'[t].pc = "done" /\ tasks'[t].outcome = "totalDuration"
                 ELSE tasks'[t].pc = "load"
         /\ tasks'[t].pc = "load" => tasks[t].pc \in {"lock", "load"}
         /\ (tasks[t].pc = "load" /\ tasks'[t].pc # "load"
             /\ LoadResult(tasks[t].file) = "ok") =>
              /\ tasks'[t].outcome = "ok"
              /\ slices' = Append(slices, tasks'[t].made)
    ]_vars

\* a Slice was admitted although it takes the total above maxDuration
AdmittedOverCeiling ==
  \E t \in TaskIds :
    /\ tasks[t].op = "addSlice" /\ tasks[t].outcome = "ok"
    /\ InList(tasks[t].made)
    /\ LongerThan(totalDuration, maxDuration)
    /\ ~LongerThan(totalDuration - Frames(sliceHeap[tasks[t].made].audio),
                   maxDuration)

\* the elements of a list
Elements(list) == {list[i] : i \in 1..Len(list)}

\* C18: removeLayer(slice, layer) never removes a Layer other than the one
\* passed: when layer is not in slice.layers as the critical section runs,
\* the layer list stays as it is.
RemovesOnlyThePassedLayer ==
  [][\A t \in TaskIds :
       (tasks[t].op = "removeLayer" /\ tasks[t].pc = "lock"
        /\ tasks'[t].pc # "lock") =>
         LET before == sliceHeap[tasks[t].slice].layers
             after == sliceHeap'[tasks[t].slice].layers
         IN  /\ Elements(before) \ Elements(after) \subseteq {tasks[t].layer}
             /\ tasks[t].layer \notin Elements(before) => after = before
    ]_vars

\* C19: removeSlice, moveSliceUp and moveSliceDown affect only the Slice
\* passed: removeSlice deletes exactly that Slice, the moves leave the list a
\* permutation of itself, and with a Slice that is not in the list all three
\* leave the list as it is.
OnlyThePassedSlice ==
  \A s \in SliceIds \ collected :
    /\ Removed(slices, s) = SelectSeq(slices, LAMBDA x : x # s)
    /\ Len(MovedUp(slices, s)) = Len(slices)
    /\ Elements(MovedUp(slices, s)) = Elements(slices)
    /\ Len(MovedDown(slices, s)) = Len(slices)
    /\ Elements(MovedDown(slices, s)) = Elements(slices)
    /\ ~InList(s) =>
         /\ MovedUp(slices, s) = slices
         /\ MovedDown(slices, s) = slices

\* C20: the selected editSlice is null or a Slice of the slice list.
SelectionInList == editSlice = 0 \/ InList(editSlice)

====
